---- MODULE Spec2Model ----
(***************************************************************************)
(* Model of contracts/cw20-ics20/src/ibc.rs: the ICS20 packet lifecycle    *)
(* (receive, acknowledge, timeout) against the per-(channel, denom)        *)
(* ledger CHANNEL_STATE and the cw20 allow-list ALLOW_LIST.                *)
(*                                                                         *)
(* Strings that the code takes apart (denoms) are sequences of atoms: the  *)
(* atom "/" is the separator character, the atom "cw20:" the contract      *)
(* prefix, every other atom a run of characters that contains neither.     *)
(* Integers are scaled: U64_MAX and U128_MAX stand for 2^64-1 and 2^128-1. *)
(***************************************************************************)
EXTENDS Integers, Sequences, FiniteSets, TLC

VARIABLES
    channel_state,  \* CHANNEL_STATE: (channel id, denom) -> [outstanding, total_sent]
    allow_list,     \* ALLOW_LIST: token contract address -> [gas_limit]
    channel_info,   \* CHANNEL_INFO: channel id -> ChannelInfo
    pre,            \* CHANNEL_STATE as it was when the last event was admitted
    pre_info,       \* CHANNEL_INFO as it was when the last event was admitted
    ev,             \* the last event delivered to the contract
    res,            \* what the entry point returned for it
    dispatched,     \* (channel id, denom) -> sum of the amounts receives have dispatched to receivers
    replayed        \* the last event is a receive of the very packet the event before it received with success

vars == <<channel_state, allow_list, channel_info, pre, pre_info, ev, res, dispatched, replayed>>

----------------------------------------------------------------------------
(* Bounds *)

U64_MAX == 1

MaxAmount == U64_MAX + 1

U128_MAX == 2

----------------------------------------------------------------------------
(* Constants of the program and of its test fixtures *)

ICS20_VERSION == "ics20-1"

SEND_TOKEN_ID == 1337

Slash == "/"

Cw20Prefix == "cw20:"

None == [some |-> FALSE]

Some(v) == [some |-> TRUE, val |-> v]

Ok(v) == [kind |-> "ok", val |-> v]

Err(e) == [kind |-> "err", err |-> e]

Panic == [kind |-> "panic"]

----------------------------------------------------------------------------
(* Wire encodings *)

\* to_binary(&Ics20Packet): the JSON object with the four fields
Ics20Packet(amount, denom, sender, receiver) ==
    [amount |-> amount, denom |-> denom, receiver |-> receiver, sender |-> sender]

to_binary_packet(p) ==
    [json |-> "object", keys |-> {"amount", "denom", "receiver", "sender"}, body |-> p]

\* from_binary::<Ics20Packet>: fails unless the bytes are an object with the four fields
from_binary_packet(data) ==
    IF data.json = "object" /\ data.keys = {"amount", "denom", "receiver", "sender"}
    THEN Ok(data.body)
    ELSE Err([kind |-> "Std", msg |-> "ParseErr"])

Ics20AckResult(bin) == [variant |-> "result", data |-> bin]

Ics20AckError(msg) == [variant |-> "error", data |-> msg]

\* to_binary(&Ics20Ack): snake_case single-key object
to_binary_ack(a) ==
    [json |-> "object", keys |-> {a.variant}, body |-> a.data]

\* from_binary::<Ics20Ack>: fails unless the bytes are a single-key object result / error
from_binary_ack(data) ==
    IF data.json = "object" /\ data.keys = {"result"} THEN Ok(Ics20AckResult(data.body))
    ELSE IF data.json = "object" /\ data.keys = {"error"} THEN Ok(Ics20AckError(data.body))
    ELSE Err([kind |-> "Std", msg |-> "ParseErr"])

ack_success == to_binary_ack(Ics20AckResult(<<"1">>))

ack_fail(err) == to_binary_ack(Ics20AckError(err))

\* Display of ContractError: the variant's message, with the variant's field filled in
to_string(e) ==
    IF e.kind = "FromOtherPort" THEN <<"Parsed port from denom doesn't match packet: ">> \o e.port
    ELSE IF e.kind = "FromOtherChannel" THEN <<"Parsed channel from denom doesn't match packet: ">> \o e.channel
    ELSE IF e.kind = "Std" THEN <<e.msg>>
    ELSE <<e.kind>>

Garbage == [json |-> "garbage", keys |-> {}, body |-> <<>>]

----------------------------------------------------------------------------
(* Strings as sequences of atoms *)

\* position of the first separator in s, 0 when there is none
RECURSIVE find(_, _, _)
find(s, c, i) ==
    IF i > Len(s) THEN 0
    ELSE IF s[i] = c THEN i
    ELSE find(s, c, i + 1)

\* str::splitn(n, '/'): at most n parts, the last part keeps its separators
RECURSIVE splitn(_, _)
splitn(n, s) ==
    LET i == find(s, Slash, 1)
    IN  IF n <= 1 \/ i = 0 THEN <<s>>
        ELSE <<SubSeq(s, 1, i - 1)>> \o splitn(n - 1, SubSeq(s, i + 1, Len(s)))

\* format!("{}/{}/{}", port, channel, denom)
voucher(port, channel, denom) == <<port, Slash, channel, Slash>> \o denom

\* Amount::from_parts: "cw20:<address>" is a contract token, anything else native
from_parts(denom, amount) ==
    IF Len(denom) >= 1 /\ denom[1] = Cw20Prefix
    THEN [type |-> "Cw20", address |-> SubSeq(denom, 2, Len(denom)), amount |-> amount]
    ELSE [type |-> "Native", denom |-> denom, amount |-> amount]

\* Api::addr_validate: the empty string is no address
addr_validate(address) ==
    IF Len(address) = 0 THEN Err([kind |-> "Std", msg |-> "InvalidAddr"]) ELSE Ok(address)

----------------------------------------------------------------------------
(* Ics20Packet::validate *)

validate(msg) ==
    IF msg.amount > U64_MAX THEN Err([kind |-> "AmountOverflow"]) ELSE Ok(TRUE)

----------------------------------------------------------------------------
(* Denomination codec *)

\* a codec that checks the port and not the channel
parse_voucher_denom_port_only(voucher_denom, remote_endpoint) ==
    LET split_denom == splitn(3, voucher_denom)
    IN  IF Len(split_denom) # 3 THEN Err([kind |-> "NoForeignTokens"])
        ELSE IF split_denom[1] # <<remote_endpoint.port_id>>
             THEN Err([kind |-> "FromOtherPort", port |-> split_denom[1]])
        ELSE Ok(split_denom[3])

parse_voucher_denom(voucher_denom, remote_endpoint) ==
    LET split_denom == splitn(3, voucher_denom)
    IN  IF Len(split_denom) # 3 THEN Err([kind |-> "NoForeignTokens"])
        ELSE IF split_denom[1] # <<remote_endpoint.port_id>>
             THEN Err([kind |-> "FromOtherPort", port |-> split_denom[1]])
        ELSE IF split_denom[2] # <<remote_endpoint.channel_id>>
             THEN Err([kind |-> "FromOtherChannel", channel |-> split_denom[2]])
        ELSE Ok(split_denom[3])

----------------------------------------------------------------------------
(* Transfer dispatcher *)

\* a lookup that takes a missing allow-list entry for one without a gas limit
check_gas_limit_default(al, amount) ==
    IF amount.type = "Cw20"
    THEN LET addr == addr_validate(amount.address)
         IN  IF addr.kind # "ok" THEN addr
             ELSE IF addr.val \notin DOMAIN al THEN Ok(None)
             ELSE Ok(al[addr.val].gas_limit)
    ELSE Ok(None)

check_gas_limit(al, amount) ==
    IF amount.type = "Cw20"
    THEN LET addr == addr_validate(amount.address)
         IN  IF addr.kind # "ok" THEN addr
             ELSE IF addr.val \notin DOMAIN al THEN Err([kind |-> "NotOnAllowList"])
             ELSE Ok(al[addr.val].gas_limit)
    ELSE Ok(None)

send_amount(amount, recipient, gas_limit) ==
    IF amount.type = "Native"
    THEN [id |-> SEND_TOKEN_ID, reply_on |-> "error", gas_limit |-> None,
          msg |-> [type |-> "BankMsg::Send", to_address |-> recipient,
                   coins |-> <<[denom |-> amount.denom, amount |-> amount.amount]>>]]
    ELSE [id |-> SEND_TOKEN_ID, reply_on |-> "error", gas_limit |-> gas_limit,
          msg |-> [type |-> "WasmMsg::Execute", contract_addr |-> amount.address,
                   msg |-> [transfer |-> [recipient |-> recipient, amount |-> amount.amount]],
                   funds |-> <<>>]]

----------------------------------------------------------------------------
(* Channel balance ledger: the closures handed to CHANNEL_STATE.update *)

may_load(cs, key) == IF key \in DOMAIN cs THEN Some(cs[key]) ELSE None

\* a store that keeps the written entry and nothing else
save_only(cs, key, val) == [k \in {key} |-> val]

save(cs, key, val) == [k \in DOMAIN cs \cup {key} |-> IF k = key THEN val ELSE cs[k]]

\* a subtraction that stops at zero instead of failing
saturating_sub(a, b) == Ok(IF b > a THEN 0 ELSE a - b)

\* Uint128::checked_sub
checked_sub(a, b) == IF b > a THEN Err([kind |-> "Overflow"]) ELSE Ok(a - b)

\* Uint128 += : aborts when the sum does not fit
add_assign(a, b) == IF a + b > U128_MAX THEN Panic ELSE Ok(a + b)

ChannelStateDefault == [outstanding |-> 0, total_sent |-> 0]

\* a closure that takes the amount from both counters
reserve_both(orig, amount) ==
    IF ~orig.some THEN Err([kind |-> "InsufficientFunds"])
    ELSE LET sub == checked_sub(orig.val.outstanding, amount)
         IN  IF sub.kind # "ok" THEN Err([kind |-> "InsufficientFunds"])
             ELSE Ok([outstanding |-> sub.val, total_sent |-> orig.val.total_sent - amount])

\* a closure that checks the funds and forgets to store the difference
reserve_unstored(orig, amount) ==
    IF ~orig.some THEN Err([kind |-> "InsufficientFunds"])
    ELSE LET sub == checked_sub(orig.val.outstanding, amount)
         IN  IF sub.kind # "ok" THEN Err([kind |-> "InsufficientFunds"])
             ELSE Ok(orig.val)

\* the closure of do_ibc_packet_receive
reserve(orig, amount) ==
    IF ~orig.some THEN Err([kind |-> "InsufficientFunds"])
    ELSE LET sub == checked_sub(orig.val.outstanding, amount)
         IN  IF sub.kind # "ok" THEN Err([kind |-> "InsufficientFunds"])
             ELSE Ok([orig.val EXCEPT !.outstanding = sub.val])

\* a closure that credits outstanding only
release_outstanding_only(orig, amount) ==
    LET state == IF orig.some THEN orig.val ELSE ChannelStateDefault
        o == add_assign(state.outstanding, amount)
    IN  IF o.kind # "ok" THEN Panic
        ELSE Ok([outstanding |-> o.val, total_sent |-> state.total_sent])

\* the closure of on_packet_success
release(orig, amount) ==
    LET state == IF orig.some THEN orig.val ELSE ChannelStateDefault
        o == add_assign(state.outstanding, amount)
        t == add_assign(state.total_sent, amount)
    IN  IF o.kind # "ok" \/ t.kind # "ok" THEN Panic
        ELSE Ok([outstanding |-> o.val, total_sent |-> t.val])

----------------------------------------------------------------------------
(* Dispatch callback *)

Reply(id, result) == [id |-> id, result |-> result]

\* a callback that does not look at the correlation id
reply_any_id(msg) ==
    IF msg.result.kind = "ok"
    THEN Ok([data |-> None, messages |-> <<>>, attributes |-> <<>>])
    ELSE Ok([data |-> Some(ack_fail(msg.result.err)), messages |-> <<>>, attributes |-> <<>>])

reply(msg) ==
    IF msg.id # SEND_TOKEN_ID THEN Err([kind |-> "UnknownReplyId", id |-> msg.id])
    ELSE IF msg.result.kind = "ok"
         THEN Ok([data |-> None, messages |-> <<>>, attributes |-> <<>>])
    ELSE Ok([data |-> Some(ack_fail(msg.result.err)), messages |-> <<>>, attributes |-> <<>>])

----------------------------------------------------------------------------
(* Channel registry.  A handler yields r, what it returns, and ci, the     *)
(* CHANNEL_INFO map as the handler left it.                                *)

ICS20_ORDERING == "Unordered"

IbcChannel(endpoint, counterparty_endpoint, order, version, connection_id) ==
    [endpoint |-> endpoint, counterparty_endpoint |-> counterparty_endpoint,
     order |-> order, version |-> version, connection_id |-> connection_id]

\* a check that looks at this end of the channel only
enforce_order_and_version_local(channel, counterparty_version) ==
    IF channel.version # ICS20_VERSION
    THEN Err([kind |-> "InvalidIbcVersion", version |-> channel.version])
    ELSE IF channel.order # ICS20_ORDERING
    THEN Err([kind |-> "OnlyOrderedChannel"])
    ELSE Ok(TRUE)

enforce_order_and_version(channel, counterparty_version) ==
    IF channel.version # ICS20_VERSION
    THEN Err([kind |-> "InvalidIbcVersion", version |-> channel.version])
    ELSE IF counterparty_version.some /\ counterparty_version.val # ICS20_VERSION
    THEN Err([kind |-> "InvalidIbcVersion", version |-> counterparty_version.val])
    ELSE IF channel.order # ICS20_ORDERING
    THEN Err([kind |-> "OnlyOrderedChannel"])
    ELSE Ok(TRUE)

ibc_channel_open(ci, msg) ==
    LET chk == enforce_order_and_version(msg.channel, msg.counterparty_version)
    IN  IF chk.kind # "ok" THEN [r |-> chk, ci |-> ci]
        ELSE [r |-> Ok(TRUE), ci |-> ci]

ibc_channel_connect(ci, msg) ==
    LET chk == enforce_order_and_version(msg.channel, msg.counterparty_version)
    IN  IF chk.kind # "ok" THEN [r |-> chk, ci |-> ci]
        ELSE
        LET channel == msg.channel
            info == [id |-> channel.endpoint.channel_id,
                     counterparty_endpoint |-> channel.counterparty_endpoint,
                     connection_id |-> channel.connection_id]
        IN  [r |-> Ok([messages |-> <<>>, attributes |-> <<>>]),
             ci |-> [k \in DOMAIN ci \cup {info.id} |-> IF k = info.id THEN info ELSE ci[k]]]

----------------------------------------------------------------------------
(* Packet lifecycle.  A handler yields r, what it returns, and cs, the     *)
(* storage as the handler left it.                                         *)

do_ibc_packet_receive(cs, al, packet) ==
    LET msg == from_binary_packet(packet.data)
    IN  IF msg.kind # "ok" THEN [r |-> msg, cs |-> cs]
        ELSE
        LET channel == packet.dest.channel_id
            denom == parse_voucher_denom(msg.val.denom, packet.src)
        IN  IF denom.kind # "ok" THEN [r |-> denom, cs |-> cs]
            ELSE
            LET key == <<channel, denom.val>>
                upd == reserve(may_load(cs, key), msg.val.amount)
            IN  IF upd.kind # "ok" THEN [r |-> upd, cs |-> cs]
                ELSE
                LET cs1 == save(cs, key, upd.val)
                    to_send == from_parts(denom.val, msg.val.amount)
                    gas_limit == check_gas_limit(al, to_send)
                IN  IF gas_limit.kind # "ok" THEN [r |-> gas_limit, cs |-> cs1]
                    ELSE
                    [r |-> Ok([acknowledgement |-> ack_success,
                               messages |-> <<send_amount(to_send, msg.val.receiver, gas_limit.val)>>,
                               attributes |-> <<<<"action", "receive">>,
                                                <<"sender", msg.val.sender>>,
                                                <<"receiver", msg.val.receiver>>,
                                                <<"denom", denom.val>>,
                                                <<"amount", msg.val.amount>>,
                                                <<"success", "true">>>>]),
                     cs |-> cs1]

\* an entry point that hands the error of the inner function to the host
ibc_packet_receive_propagating(cs, al, packet) ==
    do_ibc_packet_receive(cs, al, packet)

ibc_packet_receive(cs, al, packet) ==
    LET out == do_ibc_packet_receive(cs, al, packet)
    IN  IF out.r.kind = "ok" THEN out
        ELSE [r |-> Ok([acknowledgement |-> ack_fail(to_string(out.r.err)),
                        messages |-> <<>>,
                        attributes |-> <<<<"action", "receive">>,
                                         <<"success", "false">>,
                                         <<"error", to_string(out.r.err)>>>>]),
              cs |-> out.cs]

on_packet_success(cs, packet) ==
    LET msg == from_binary_packet(packet.data)
    IN  IF msg.kind # "ok" THEN [r |-> msg, cs |-> cs]
        ELSE
        LET key == <<packet.src.channel_id, msg.val.denom>>
            upd == release(may_load(cs, key), msg.val.amount)
        IN  IF upd.kind # "ok" THEN [r |-> upd, cs |-> cs]
            ELSE
            [r |-> Ok([messages |-> <<>>,
                       attributes |-> <<<<"action", "acknowledge">>,
                                        <<"sender", msg.val.sender>>,
                                        <<"receiver", msg.val.receiver>>,
                                        <<"denom", msg.val.denom>>,
                                        <<"amount", msg.val.amount>>,
                                        <<"success", "true">>>>]),
             cs |-> save(cs, key, upd.val)]

\* a failure path that also credits outstanding with the returned amount
on_packet_failure_crediting(cs, al, packet, err) ==
    LET msg == from_binary_packet(packet.data)
    IN  IF msg.kind # "ok" THEN [r |-> msg, cs |-> cs]
        ELSE
        LET to_send == from_parts(msg.val.denom, msg.val.amount)
            gas_limit == check_gas_limit(al, to_send)
            key == <<packet.src.channel_id, msg.val.denom>>
            state == IF key \in DOMAIN cs THEN cs[key] ELSE ChannelStateDefault
        IN  IF gas_limit.kind # "ok" THEN [r |-> gas_limit, cs |-> cs]
            ELSE
            [r |-> Ok([messages |-> <<send_amount(to_send, msg.val.sender, gas_limit.val)>>,
                       attributes |-> <<<<"action", "acknowledge">>,
                                        <<"sender", msg.val.sender>>,
                                        <<"receiver", msg.val.receiver>>,
                                        <<"denom", msg.val.denom>>,
                                        <<"amount", msg.val.amount>>,
                                        <<"success", "false">>,
                                        <<"error", err>>>>]),
             cs |-> save(cs, key, [state EXCEPT !.outstanding = state.outstanding + msg.val.amount])]

\* a failure path that pays the receiver of the packet
on_packet_failure_to_receiver(cs, al, packet, err) ==
    LET msg == from_binary_packet(packet.data)
    IN  IF msg.kind # "ok" THEN [r |-> msg, cs |-> cs]
        ELSE
        LET to_send == from_parts(msg.val.denom, msg.val.amount)
            gas_limit == check_gas_limit(al, to_send)
        IN  IF gas_limit.kind # "ok" THEN [r |-> gas_limit, cs |-> cs]
            ELSE
            [r |-> Ok([messages |-> <<send_amount(to_send, msg.val.receiver, gas_limit.val)>>,
                       attributes |-> <<<<"action", "acknowledge">>,
                                        <<"sender", msg.val.sender>>,
                                        <<"receiver", msg.val.receiver>>,
                                        <<"denom", msg.val.denom>>,
                                        <<"amount", msg.val.amount>>,
                                        <<"success", "false">>,
                                        <<"error", err>>>>]),
             cs |-> cs]

on_packet_failure(cs, al, packet, err) ==
    LET msg == from_binary_packet(packet.data)
    IN  IF msg.kind # "ok" THEN [r |-> msg, cs |-> cs]
        ELSE
        LET to_send == from_parts(msg.val.denom, msg.val.amount)
            gas_limit == check_gas_limit(al, to_send)
        IN  IF gas_limit.kind # "ok" THEN [r |-> gas_limit, cs |-> cs]
            ELSE
            [r |-> Ok([messages |-> <<send_amount(to_send, msg.val.sender, gas_limit.val)>>,
                       attributes |-> <<<<"action", "acknowledge">>,
                                        <<"sender", msg.val.sender>>,
                                        <<"receiver", msg.val.receiver>>,
                                        <<"denom", msg.val.denom>>,
                                        <<"amount", msg.val.amount>>,
                                        <<"success", "false">>,
                                        <<"error", err>>>>]),
             cs |-> cs]

ibc_packet_ack(cs, al, original_packet, acknowledgement) ==
    LET ics20msg == from_binary_ack(acknowledgement)
    IN  IF ics20msg.kind # "ok" THEN [r |-> ics20msg, cs |-> cs]
        ELSE IF ics20msg.val.variant = "result" THEN on_packet_success(cs, original_packet)
        ELSE on_packet_failure(cs, al, original_packet, ics20msg.val.data)

\* a timeout handler that reports the timeout and returns nothing
ibc_packet_timeout_no_refund(cs, al, packet) ==
    LET msg == from_binary_packet(packet.data)
    IN  IF msg.kind # "ok" THEN [r |-> msg, cs |-> cs]
        ELSE [r |-> Ok([messages |-> <<>>,
                        attributes |-> <<<<"action", "acknowledge">>,
                                         <<"success", "false">>,
                                         <<"error", <<"timeout">>>>>>]),
              cs |-> cs]

ibc_packet_timeout(cs, al, packet) ==
    on_packet_failure(cs, al, packet, <<"timeout">>)

\* the host keeps the handler's writes when it returns Ok and discards them otherwise
commit(cs, out) == IF out.r.kind = "ok" THEN out.cs ELSE cs

----------------------------------------------------------------------------
(* The events the host delivers *)

CONTRACT_PORT == "ibc:wasm1234567890abcdef"

REMOTE_PORT == "transfer"

REMOTE_CHANNEL == "channel-1234"

Uatom == <<"uatom">>

Cw20Token == <<Cw20Prefix, "token-addr">>

Cw20Other == <<Cw20Prefix, "other-addr">>

Cw20NoAddr == <<Cw20Prefix>>

Amounts == 0 .. MaxAmount

IbcEndpoint(port, channel) == [port_id |-> port, channel_id |-> channel]

IbcPacket(data, src, dest) == [data |-> data, src |-> src, dest |-> dest]

mock_sent_packet(my_channel, amount, denom, sender) ==
    IbcPacket(to_binary_packet(Ics20Packet(amount, denom, sender, "remote-rcpt")),
              IbcEndpoint(CONTRACT_PORT, my_channel),
              IbcEndpoint(REMOTE_PORT, REMOTE_CHANNEL))

mock_receive_packet(my_channel, amount, denom, receiver) ==
    IbcPacket(to_binary_packet(Ics20Packet(amount, denom, "remote-sender", receiver)),
              IbcEndpoint(REMOTE_PORT, REMOTE_CHANNEL),
              IbcEndpoint(CONTRACT_PORT, my_channel))

\* packets this contract sent: every amount of the native denom on channel-9,
\* the largest amount of each contract token, and one that is no packet at all
SentPackets ==
    {mock_sent_packet("channel-9", a, Uatom, "local-sender") : a \in 1 .. MaxAmount}
    \cup {mock_sent_packet("channel-9", MaxAmount, d, "local-sender") : d \in {Cw20Token, Cw20Other}}
    \cup {mock_sent_packet("channel-7", MaxAmount, Cw20NoAddr, "local-sender")}
    \cup {IbcPacket(Garbage, IbcEndpoint(CONTRACT_PORT, "channel-9"),
                    IbcEndpoint(REMOTE_PORT, REMOTE_CHANNEL))}

\* denoms a counterparty may put into a packet: vouchers of ours and others
VoucherDenoms ==
    {voucher(REMOTE_PORT, REMOTE_CHANNEL, d) : d \in {Uatom, Cw20Token, Cw20Other}}

ForeignDenoms ==
    {Uatom, <<REMOTE_PORT, Slash, "uatom">>,
     voucher("other-port", REMOTE_CHANNEL, Uatom),
     voucher(REMOTE_PORT, "channel-99", Uatom),
     voucher("other-port", "channel-99", Uatom)}

ReceivedPackets ==
    {mock_receive_packet("channel-9", a, d, "local-rcpt") : a \in Amounts, d \in VoucherDenoms}
    \cup {mock_receive_packet("channel-9", 1, d, "local-rcpt") : d \in ForeignDenoms}
    \cup {mock_receive_packet("channel-9", 1, voucher(REMOTE_PORT, REMOTE_CHANNEL, Uatom \o <<Slash, "x">>), "local-rcpt")}
    \cup {mock_receive_packet("channel-7", 1, voucher(REMOTE_PORT, REMOTE_CHANNEL, Uatom), "local-rcpt")}
    \cup {mock_receive_packet("channel-9", MaxAmount, voucher(REMOTE_PORT, REMOTE_CHANNEL, Cw20NoAddr), "local-rcpt")}
    \cup {IbcPacket(Garbage, IbcEndpoint(REMOTE_PORT, REMOTE_CHANNEL),
                    IbcEndpoint(CONTRACT_PORT, "channel-9"))}

Acknowledgements == {ack_success, ack_fail(<<"remote error">>), Garbage}

----------------------------------------------------------------------------
(* The events of the channel handshake and of the dispatch callback *)

Replies ==
    {Reply(id, result) : id \in {SEND_TOKEN_ID, SEND_TOKEN_ID + 1},
                         result \in {Ok(<<>>), Err(<<"dispatch failed">>)}}

Versions == {ICS20_VERSION, "ics20-2"}

Orders == {"Unordered", "Ordered"}

CounterpartyVersions == {None} \cup {Some(v) : v \in Versions}

LocalChannels == {"channel-9", "channel-7"}

RemoteEndpoints == {IbcEndpoint(REMOTE_PORT, REMOTE_CHANNEL), IbcEndpoint(REMOTE_PORT, "channel-77")}

Connections == {"connection-2", "connection-5"}

ChannelOpenMsgs ==
    {[channel |-> IbcChannel(IbcEndpoint(CONTRACT_PORT, c), IbcEndpoint(REMOTE_PORT, REMOTE_CHANNEL),
                             o, v, "connection-2"),
      counterparty_version |-> cv] :
        c \in LocalChannels, o \in Orders, v \in Versions, cv \in CounterpartyVersions}

ChannelConnectMsgs ==
    {[channel |-> IbcChannel(IbcEndpoint(CONTRACT_PORT, c), e, o, v, n),
      counterparty_version |-> cv] :
        c \in LocalChannels, e \in RemoteEndpoints, n \in Connections,
        o \in Orders, v \in Versions, cv \in CounterpartyVersions}

----------------------------------------------------------------------------
(* The state machine *)

\* the allow-list the contract is set up with
AllowListAtInit == [a \in {<<"token-addr">>} |-> [gas_limit |-> Some(1234567)]]

Init ==
    /\ channel_state = [k \in {} |-> ChannelStateDefault]
    /\ allow_list = AllowListAtInit
    /\ channel_info = [k \in {} |-> {}]
    /\ pre = channel_state
    /\ pre_info = channel_info
    /\ ev = [kind |-> "init"]
    /\ res = [kind |-> "none"]
    /\ dispatched = [k \in {} |-> 0]
    /\ replayed = FALSE

\* what a successful receive dispatched: the entry it drew on and the amount
receipt(packet, r) ==
    [key |-> <<packet.dest.channel_id, r.val.attributes[4][2]>>,
     amount |-> r.val.attributes[5][2]]

Receive ==
    \E packet \in ReceivedPackets :
        \E out \in {ibc_packet_receive(channel_state, allow_list, packet)} :
            /\ channel_state' = commit(channel_state, out)
            /\ pre' = channel_state
            /\ ev' = [kind |-> "receive", packet |-> packet]
            /\ res' = out.r
            /\ dispatched' =
                   IF out.r.kind = "ok" /\ Len(out.r.val.messages) > 0
                   THEN LET rc == receipt(packet, out.r)
                        IN  [k \in DOMAIN dispatched \cup {rc.key} |->
                                IF k = rc.key
                                THEN (IF k \in DOMAIN dispatched THEN dispatched[k] ELSE 0) + rc.amount
                                ELSE dispatched[k]]
                   ELSE dispatched
            /\ replayed' = (/\ ev.kind = "receive"
                            /\ ev.packet = packet
                            /\ res.kind = "ok"
                            /\ Len(res.val.messages) > 0)
            /\ pre_info' = channel_info
            /\ UNCHANGED <<allow_list, channel_info>>

Ack ==
    \E packet \in SentPackets, ack \in Acknowledgements :
        \E out \in {ibc_packet_ack(channel_state, allow_list, packet, ack)} :
            /\ channel_state' = commit(channel_state, out)
            /\ pre' = channel_state
            /\ ev' = [kind |-> "ack", packet |-> packet, acknowledgement |-> ack]
            /\ res' = out.r
            /\ replayed' = FALSE
            /\ pre_info' = channel_info
            /\ UNCHANGED <<allow_list, channel_info, dispatched>>

Timeout ==
    \E packet \in SentPackets :
        \E out \in {ibc_packet_timeout(channel_state, allow_list, packet)} :
            /\ channel_state' = commit(channel_state, out)
            /\ pre' = channel_state
            /\ ev' = [kind |-> "timeout", packet |-> packet]
            /\ res' = out.r
            /\ replayed' = FALSE
            /\ pre_info' = channel_info
            /\ UNCHANGED <<allow_list, channel_info, dispatched>>

\* the host reports the outcome of a dispatched instruction; pending is the
\* acknowledgement of the receive that dispatched it, when the last event was one
DispatchCallback ==
    \E msg \in Replies :
        /\ pre' = channel_state
        /\ ev' = [kind |-> "reply", reply |-> msg,
                  pending |-> IF ev.kind = "receive" /\ res.kind = "ok" /\ Len(res.val.messages) > 0
                              THEN Some(res.val.acknowledgement) ELSE None]
        /\ res' = reply(msg)
        /\ replayed' = FALSE
        /\ pre_info' = channel_info
        /\ UNCHANGED <<channel_state, allow_list, channel_info, dispatched>>

Next == Receive \/ Ack \/ Timeout \/ DispatchCallback

Spec == Init /\ [][Next]_vars

\* the packet events on a channel whose handshake has been completed
ConnectedChannel ==
    [channel |-> IbcChannel(IbcEndpoint(CONTRACT_PORT, "channel-9"),
                            IbcEndpoint(REMOTE_PORT, REMOTE_CHANNEL),
                            ICS20_ORDERING, ICS20_VERSION, "connection-2"),
     counterparty_version |-> None]

InitConnected ==
    /\ channel_state = [k \in {} |-> ChannelStateDefault]
    /\ allow_list = AllowListAtInit
    /\ channel_info = ibc_channel_connect([k \in {} |-> {}], ConnectedChannel).ci
    /\ pre = channel_state
    /\ pre_info = channel_info
    /\ ev = [kind |-> "init"]
    /\ res = [kind |-> "none"]
    /\ dispatched = [k \in {} |-> 0]
    /\ replayed = FALSE

SpecConnected == InitConnected /\ [][Next]_vars

ChannelOpen ==
    \E msg \in ChannelOpenMsgs :
        LET out == ibc_channel_open(channel_info, msg)
        IN  /\ channel_info' = (IF out.r.kind = "ok" THEN out.ci ELSE channel_info)
            /\ pre_info' = channel_info
            /\ ev' = [kind |-> "channel_open", msg |-> msg]
            /\ res' = out.r
            /\ UNCHANGED <<channel_state, allow_list, pre, dispatched, replayed>>

ChannelConnect ==
    \E msg \in ChannelConnectMsgs :
        LET out == ibc_channel_connect(channel_info, msg)
        IN  /\ channel_info' = (IF out.r.kind = "ok" THEN out.ci ELSE channel_info)
            /\ pre_info' = channel_info
            /\ ev' = [kind |-> "channel_connect", msg |-> msg]
            /\ res' = out.r
            /\ UNCHANGED <<channel_state, allow_list, pre, dispatched, replayed>>

NextChannel == ChannelOpen \/ ChannelConnect

SpecChannel == Init /\ [][NextChannel]_vars

----------------------------------------------------------------------------
(* Batches: the host delivers a few events on one (channel, denom), one    *)
(* after the other, each through its entry point                           *)

OrderChannel == "channel-9"

OrderDenom == Uatom

OrderEvents ==
    {[kind |-> k, amount |-> a] : k \in {"ack", "receive"}, a \in {1, MaxAmount}}

MaxBatch == 3

Batches == UNION {[1 .. n -> OrderEvents] : n \in 2 .. MaxBatch}

\* what the host keeps of one event: the ledger, whether the event was
\* accepted, and what it dispatched to the receiver
outcome(cs, e, out) ==
    IF e.kind = "receive"
    THEN [cs |-> commit(cs, out),
          accepted |-> out.r.kind = "ok" /\ out.r.val.acknowledgement = ack_success,
          sent |-> IF /\ out.r.kind = "ok"
                      /\ out.r.val.acknowledgement = ack_success
                      /\ Len(out.r.val.messages) > 0
                   THEN e.amount ELSE 0]
    ELSE [cs |-> commit(cs, out), accepted |-> out.r.kind = "ok", sent |-> 0]

\* one event of a batch through its entry point
deliver(cs, al, e) ==
    outcome(cs, e,
            IF e.kind = "receive"
            THEN ibc_packet_receive(cs, al,
                     mock_receive_packet(OrderChannel, e.amount,
                                         voucher(REMOTE_PORT, REMOTE_CHANNEL, OrderDenom), "local-rcpt"))
            ELSE ibc_packet_ack(cs, al,
                     mock_sent_packet(OrderChannel, e.amount, OrderDenom, "local-sender"),
                     ack_success))

\* an event's outcome followed by the outcome of the events after it
join(one, rest) ==
    [cs |-> rest.cs,
     accepted |-> one.accepted /\ rest.accepted,
     sent |-> one.sent + rest.sent]

\* the events of seq from position i on, delivered in turn
RECURSIVE deliver_all(_, _, _, _)
RECURSIVE deliver_rest(_, _, _, _)
deliver_rest(one, al, seq, i) == join(one, deliver_all(one.cs, al, seq, i + 1))

deliver_all(cs, al, seq, i) ==
    IF i > Len(seq) THEN [cs |-> cs, accepted |-> TRUE, sent |-> 0]
    ELSE deliver_rest(deliver(cs, al, seq[i]), al, seq, i)

Batch ==
    \E seq \in Batches :
        \E out \in {deliver_all(channel_state, allow_list, seq, 1)} :
            /\ channel_state' = out.cs
            /\ pre' = channel_state
            /\ ev' = [kind |-> "batch", events |-> seq]
            /\ res' = [kind |-> "batch", accepted |-> out.accepted]
            /\ dispatched' =
                   IF out.sent > 0
                   THEN [k \in DOMAIN dispatched \cup {<<OrderChannel, OrderDenom>>} |->
                            IF k = <<OrderChannel, OrderDenom>>
                            THEN (IF k \in DOMAIN dispatched THEN dispatched[k] ELSE 0) + out.sent
                            ELSE dispatched[k]]
                   ELSE dispatched
            /\ replayed' = FALSE
            /\ pre_info' = channel_info
            /\ UNCHANGED <<allow_list, channel_info>>

NextOrder == Batch

SpecOrder == Init /\ [][NextOrder]_vars

----------------------------------------------------------------------------
(* What the claims speak of *)

IsReceive == ev.kind = "receive"

IsAck == ev.kind = "ack"

IsTimeout == ev.kind = "timeout"

\* the payload of the last event's packet, when it is one
EvMsg == from_binary_packet(ev.packet.data)

\* the acknowledgement a receive was answered with
RecvAck == from_binary_ack(res.val.acknowledgement)

AckIsError(e) == res.val.acknowledgement = ack_fail(to_string(e))

InsufficientFunds == [kind |-> "InsufficientFunds"]

NotOnAllowList == [kind |-> "NotOnAllowList"]

\* the voucher denom of a received packet, cut at its first two separators
FirstSlash == find(EvMsg.val.denom, Slash, 1)

SecondSlash == IF FirstSlash = 0 THEN 0 ELSE find(EvMsg.val.denom, Slash, FirstSlash + 1)

PortPart == SubSeq(EvMsg.val.denom, 1, FirstSlash - 1)

ChannelPart == SubSeq(EvMsg.val.denom, FirstSlash + 1, SecondSlash - 1)

BasePart == SubSeq(EvMsg.val.denom, SecondSlash + 1, Len(EvMsg.val.denom))

\* a received packet whose payload decodes and whose denom is a voucher of its source endpoint
IsVoucherReceive ==
    /\ IsReceive
    /\ EvMsg.kind = "ok"
    /\ SecondSlash # 0
    /\ PortPart = <<ev.packet.src.port_id>>
    /\ ChannelPart = <<ev.packet.src.channel_id>>

RecvKey == <<ev.packet.dest.channel_id, BasePart>>

\* the token of a denom may be forwarded: native, or a contract on the allow-list
Permitted(denom) ==
    \/ Len(denom) = 0
    \/ denom[1] # Cw20Prefix
    \/ /\ Len(denom) > 1
       /\ SubSeq(denom, 2, Len(denom)) \in DOMAIN allow_list

\* the one instruction that moves amount of denom to recipient
IsTransferTo(sub, denom, amount, recipient) ==
    /\ sub.id = SEND_TOKEN_ID
    /\ sub.reply_on = "error"
    /\ IF Len(denom) >= 1 /\ denom[1] = Cw20Prefix
       THEN /\ sub.msg.type = "WasmMsg::Execute"
            /\ sub.msg.contract_addr = SubSeq(denom, 2, Len(denom))
            /\ sub.msg.msg = [transfer |-> [recipient |-> recipient, amount |-> amount]]
       ELSE /\ sub.msg.type = "BankMsg::Send"
            /\ sub.msg.to_address = recipient
            /\ sub.msg.coins = <<[denom |-> denom, amount |-> amount]>>

----------------------------------------------------------------------------
(* Claims *)

\* C1: ibc_packet_receive never aborts: every receive returns Ok with a
\* decodable acknowledgement; when the internal processing fails, the
\* acknowledgement is the Error variant carrying the error's description and
\* no transfer instruction is dispatched.
C1_ReceiveNeverAborts ==
    IsReceive =>
        /\ res.kind = "ok"
        /\ RecvAck.kind = "ok"
        /\ LET inner == do_ibc_packet_receive(pre, allow_list, ev.packet).r
           IN  inner.kind # "ok" =>
                   /\ RecvAck.val = Ics20AckError(to_string(inner.err))
                   /\ res.val.messages = <<>>

C1_Witness ==
    /\ IsReceive
    /\ ev.packet.data = Garbage
    /\ res.kind = "ok"
    /\ RecvAck.val.variant = "error"
    /\ res.val.messages = <<>>

\* C2: outstanding is never negative; a receive of more than the outstanding
\* of its (destination channel, base denom) entry, or on a missing entry, is
\* answered with an InsufficientFunds failure acknowledgement, dispatches no
\* transfer instruction and leaves the entry as it was.
C2_NoOverdraw ==
    /\ \A k \in DOMAIN channel_state : channel_state[k].outstanding >= 0
    /\ (/\ IsVoucherReceive
        /\ \/ RecvKey \notin DOMAIN pre
           \/ EvMsg.val.amount > pre[RecvKey].outstanding)
       => /\ res.kind = "ok"
          /\ AckIsError(InsufficientFunds)
          /\ res.val.messages = <<>>
          /\ may_load(channel_state, RecvKey) = may_load(pre, RecvKey)

C2_Witness ==
    /\ IsVoucherReceive
    /\ RecvKey \in DOMAIN pre
    /\ pre[RecvKey].outstanding > 0
    /\ EvMsg.val.amount > pre[RecvKey].outstanding
    /\ AckIsError(InsufficientFunds)

\* C3: a receive of amount a of a permitted token with a matching voucher
\* denom on an entry with outstanding >= a succeeds: outstanding decreases by
\* exactly a, total_sent is unchanged, the acknowledgement is the success
\* variant and exactly one transfer instruction goes to the packet's receiver
\* for amount a of the base denom.
C3_ReceiveSucceeds ==
    (/\ IsVoucherReceive
     /\ Permitted(BasePart)
     /\ RecvKey \in DOMAIN pre
     /\ pre[RecvKey].outstanding >= EvMsg.val.amount)
    => /\ res.kind = "ok"
       /\ channel_state[RecvKey].outstanding = pre[RecvKey].outstanding - EvMsg.val.amount
       /\ channel_state[RecvKey].total_sent = pre[RecvKey].total_sent
       /\ RecvAck.kind = "ok"
       /\ RecvAck.val.variant = "result"
       /\ Len(res.val.messages) = 1
       /\ IsTransferTo(res.val.messages[1], BasePart, EvMsg.val.amount, EvMsg.val.receiver)

C3_Witness ==
    /\ IsVoucherReceive
    /\ BasePart = Cw20Token
    /\ EvMsg.val.amount = 1
    /\ RecvKey \in DOMAIN pre
    /\ pre[RecvKey].outstanding = MaxAmount
    /\ channel_state[RecvKey].outstanding = MaxAmount - 1
    /\ Len(res.val.messages) = 1
    /\ res.val.messages[1].gas_limit = allow_list[<<"token-addr">>].gas_limit

IsAckResult ==
    /\ IsAck
    /\ from_binary_ack(ev.acknowledgement).kind = "ok"
    /\ from_binary_ack(ev.acknowledgement).val.variant = "result"

IsAckError ==
    /\ IsAck
    /\ from_binary_ack(ev.acknowledgement).kind = "ok"
    /\ from_binary_ack(ev.acknowledgement).val.variant = "error"

IsFailurePath == IsTimeout \/ IsAckError

\* the entry of a packet this contract sent
SentKey == <<ev.packet.src.channel_id, EvMsg.val.denom>>

\* an entry's balances, zero when there is no entry
Entry(cs, key) == IF key \in DOMAIN cs THEN cs[key] ELSE [outstanding |-> 0, total_sent |-> 0]

\* C4: a Result acknowledgement for an original packet of amount a and denom
\* d sent over channel c adds exactly a to outstanding and to total_sent of
\* entry (c, d), creating the entry from zero when it is missing, and
\* dispatches no transfer instruction (the sums staying within 128 bits).
C4_AckSuccessCredits ==
    (/\ IsAckResult
     /\ EvMsg.kind = "ok"
     /\ Entry(pre, SentKey).outstanding + EvMsg.val.amount <= U128_MAX
     /\ Entry(pre, SentKey).total_sent + EvMsg.val.amount <= U128_MAX)
    => /\ res.kind = "ok"
       /\ SentKey \in DOMAIN channel_state
       /\ channel_state[SentKey].outstanding = Entry(pre, SentKey).outstanding + EvMsg.val.amount
       /\ channel_state[SentKey].total_sent = Entry(pre, SentKey).total_sent + EvMsg.val.amount
       /\ res.val.messages = <<>>

C4_Witness ==
    /\ IsAckResult
    /\ EvMsg.kind = "ok"
    /\ SentKey \notin DOMAIN pre
    /\ SentKey \in DOMAIN channel_state
    /\ channel_state[SentKey] = [outstanding |-> EvMsg.val.amount, total_sent |-> EvMsg.val.amount]
    /\ EvMsg.val.amount > 0

\* C5 as stated: on the failure path the entry (c, d) has its outstanding
\* increased by the original amount and its total_sent left unchanged.
C5_FailureRestoresOutstanding ==
    (/\ IsFailurePath
     /\ EvMsg.kind = "ok"
     /\ res.kind = "ok")
    => /\ Entry(channel_state, SentKey).outstanding = Entry(pre, SentKey).outstanding + EvMsg.val.amount
       /\ Entry(channel_state, SentKey).total_sent = Entry(pre, SentKey).total_sent

\* C5 as amended: on the failure path (Error acknowledgement or timeout) for
\* an original packet of amount a and denom d sent over channel c, the entry
\* (c, d) keeps both its outstanding and its total_sent, and is not created
\* when it is missing.
C5_FailureLeavesEntry ==
    (/\ IsFailurePath
     /\ EvMsg.kind = "ok")
    => may_load(channel_state, SentKey) = may_load(pre, SentKey)

C5_Witness ==
    /\ IsFailurePath
    /\ EvMsg.kind = "ok"
    /\ res.kind = "ok"
    /\ EvMsg.val.amount > 0
    /\ SentKey \in DOMAIN pre
    /\ pre[SentKey].outstanding < pre[SentKey].total_sent
    /\ channel_state[SentKey] = pre[SentKey]

\* C6: on the failure path for an original packet with a permitted token
\* exactly one transfer instruction is dispatched, returning the original
\* amount of the original denom to the original sender.
C6_FailureRefundsSender ==
    (/\ IsFailurePath
     /\ EvMsg.kind = "ok"
     /\ Permitted(EvMsg.val.denom))
    => /\ res.kind = "ok"
       /\ Len(res.val.messages) = 1
       /\ IsTransferTo(res.val.messages[1], EvMsg.val.denom, EvMsg.val.amount, EvMsg.val.sender)

C6_Witness ==
    /\ IsAckError
    /\ EvMsg.kind = "ok"
    /\ EvMsg.val.denom = Cw20Token
    /\ EvMsg.val.sender # EvMsg.val.receiver
    /\ Len(res.val.messages) = 1
    /\ res.val.messages[1].msg.msg.transfer.recipient = "local-sender"

\* C7: a timeout leaves the ledger and dispatches the instructions that an
\* Error acknowledgement for the same packet would from the same state; the
\* responses differ only in the reported error string, "timeout".
C7_TimeoutAsAckError ==
    IsTimeout =>
        LET ack == ibc_packet_ack(pre, allow_list, ev.packet, ack_fail(<<"remote error">>))
        IN  /\ channel_state = commit(pre, ack)
            /\ res.kind = ack.r.kind
            /\ res.kind = "err" => res.err = ack.r.err
            /\ res.kind = "ok" =>
                   /\ res.val.messages = ack.r.val.messages
                   /\ Len(res.val.attributes) = Len(ack.r.val.attributes)
                   /\ \A i \in 1 .. Len(res.val.attributes) :
                          IF res.val.attributes[i][1] = "error"
                          THEN /\ res.val.attributes[i][2] = <<"timeout">>
                               /\ ack.r.val.attributes[i][1] = "error"
                          ELSE res.val.attributes[i] = ack.r.val.attributes[i]

C7_Witness ==
    /\ IsTimeout
    /\ res.kind = "ok"
    /\ Len(res.val.messages) = 1
    /\ res.val.attributes[Len(res.val.attributes)] = <<"error", <<"timeout">>>>
    /\ SentKey \in DOMAIN pre

NotListed(denom) ==
    /\ Len(denom) > 1
    /\ denom[1] = Cw20Prefix
    /\ SubSeq(denom, 2, Len(denom)) \notin DOMAIN allow_list

\* C9 as stated: a receive whose base denom designates a token contract
\* absent from the allow-list is answered with NotOnAllowList and dispatches
\* no transfer instruction, whatever the outstanding balance.
C9_UnlistedAlwaysNotOnAllowList ==
    (/\ IsVoucherReceive
     /\ NotListed(BasePart))
    => /\ AckIsError(NotOnAllowList)
       /\ res.val.messages = <<>>

\* C9 as amended: a receive whose base denom designates a token contract
\* absent from the allow-list dispatches no transfer instruction; it is
\* answered with NotOnAllowList when the outstanding of its entry is at least
\* the requested amount, and with InsufficientFunds when it is not.
C9_UnlistedNeverForwarded ==
    (/\ IsVoucherReceive
     /\ NotListed(BasePart))
    => /\ res.kind = "ok"
       /\ res.val.messages = <<>>
       /\ IF RecvKey \in DOMAIN pre /\ pre[RecvKey].outstanding >= EvMsg.val.amount
          THEN AckIsError(NotOnAllowList)
          ELSE AckIsError(InsufficientFunds)

C9_Witness ==
    /\ IsVoucherReceive
    /\ NotListed(BasePart)
    /\ RecvKey \in DOMAIN pre
    /\ EvMsg.val.amount > 0
    /\ pre[RecvKey].outstanding >= EvMsg.val.amount
    /\ AckIsError(NotOnAllowList)
    /\ res.val.messages = <<>>

\* a receive answered with the failure acknowledgement of e, nothing dispatched, no entry changed
Rejected(e) ==
    /\ res.kind = "ok"
    /\ AckIsError(e)
    /\ res.val.messages = <<>>
    /\ channel_state = pre

\* C10: a receive is rejected whenever the packet's denom is not
\* port/channel/base with the port and channel of the packet's source
\* endpoint: fewer than 3 parts gives NoForeignTokens, a wrong first part
\* FromOtherPort, otherwise a wrong second part FromOtherChannel, whatever
\* the balances and without changing an entry; when accepted, the ledger key
\* is the destination channel with everything after the second slash.
C10_VoucherProvenance ==
    (IsReceive /\ EvMsg.kind = "ok") =>
        IF SecondSlash = 0 THEN Rejected([kind |-> "NoForeignTokens"])
        ELSE IF PortPart # <<ev.packet.src.port_id>>
             THEN Rejected([kind |-> "FromOtherPort", port |-> PortPart])
        ELSE IF ChannelPart # <<ev.packet.src.channel_id>>
             THEN Rejected([kind |-> "FromOtherChannel", channel |-> ChannelPart])
        ELSE /\ res.kind = "ok"
             /\ \/ RecvAck.val.variant = "result"
                \/ AckIsError(InsufficientFunds)
                \/ AckIsError(NotOnAllowList)
             /\ \A k \in DOMAIN pre \cup DOMAIN channel_state :
                    k # RecvKey => may_load(channel_state, k) = may_load(pre, k)
             /\ RecvKey \notin DOMAIN pre => AckIsError(InsufficientFunds)
             /\ RecvAck.val.variant = "result" =>
                    channel_state[RecvKey].outstanding = pre[RecvKey].outstanding - EvMsg.val.amount

C10_Witness ==
    /\ IsReceive
    /\ EvMsg.kind = "ok"
    /\ Rejected([kind |-> "FromOtherChannel", channel |-> <<"channel-99">>])
    /\ <<ev.packet.dest.channel_id, <<"uatom">>>> \in DOMAIN pre
    /\ pre[<<ev.packet.dest.channel_id, <<"uatom">>>>].outstanding >= EvMsg.val.amount

----------------------------------------------------------------------------
(* C11: for every (channel, denom), the sum of the amounts of the transfer *)
(* instructions that successful receives dispatched to receivers on that   *)
(* entry never exceeds the entry's total_sent.                             *)

C11_DispatchedWithinSent ==
    \A k \in DOMAIN dispatched : dispatched[k] <= Entry(channel_state, k).total_sent

\* a receive has just dispatched the last unit that was proven sent
C11_Witness ==
    /\ IsReceive
    /\ res.kind = "ok"
    /\ Len(res.val.messages) = 1
    /\ RecvKey \in DOMAIN dispatched
    /\ dispatched[RecvKey] = Entry(channel_state, RecvKey).total_sent

----------------------------------------------------------------------------
(* C12: receive is not idempotent.  A receive of the very packet that the  *)
(* event before it received with success is answered with an               *)
(* InsufficientFunds failure acknowledgement, dispatching nothing, as soon *)
(* as the outstanding left by the first receive is smaller than the packet *)
(* amount; what a successful receive took stays taken, and an entry's      *)
(* outstanding is raised again only by a success acknowledgement of a      *)
(* packet sent on that entry.                                              *)

C12_ReplayRejectedOnceExhausted ==
    /\ replayed =>
          /\ IsVoucherReceive
          /\ Entry(pre, RecvKey).outstanding + EvMsg.val.amount <= Entry(pre, RecvKey).total_sent
          /\ Entry(pre, RecvKey).outstanding < EvMsg.val.amount => Rejected(InsufficientFunds)
          /\ (res.kind = "ok" /\ Len(res.val.messages) > 0) =>
                Entry(channel_state, RecvKey).outstanding + 2 * EvMsg.val.amount
                    <= Entry(channel_state, RecvKey).total_sent
    /\ \A k \in DOMAIN channel_state :
          Entry(channel_state, k).outstanding > Entry(pre, k).outstanding =>
              IsAckResult /\ k = SentKey

\* the second of two identical receives is refused for lack of funds
C12_Witness ==
    /\ replayed
    /\ EvMsg.val.amount > 0
    /\ Entry(pre, RecvKey).outstanding < EvMsg.val.amount
    /\ Rejected(InsufficientFunds)

----------------------------------------------------------------------------
(* Claims about the channel handshake *)

IsChannelOpen == ev.kind = "channel_open"

IsChannelConnect == ev.kind = "channel_connect"

IsHandshake == IsChannelOpen \/ IsChannelConnect

\* the record a connect keeps of a channel
ChannelInfo(channel) ==
    [id |-> channel.endpoint.channel_id,
     counterparty_endpoint |-> channel.counterparty_endpoint,
     connection_id |-> channel.connection_id]

\* C13: a channel open or connect whose channel version is not "ics20-1",
\* whose counterparty version is present and is not "ics20-1", or whose
\* ordering is not unordered, is rejected with an error and records no
\* ChannelInfo; a connect with an absent counterparty version and otherwise
\* valid inputs is accepted and records the ChannelInfo of that channel id.
C13_HandshakeChecked ==
    IsHandshake =>
        /\ (\/ ev.msg.channel.version # "ics20-1"
            \/ (ev.msg.counterparty_version.some /\ ev.msg.counterparty_version.val # "ics20-1")
            \/ ev.msg.channel.order # "Unordered")
           => (res.kind = "err" /\ channel_info = pre_info)
        /\ (/\ IsChannelConnect
            /\ ~ev.msg.counterparty_version.some
            /\ ev.msg.channel.version = "ics20-1"
            /\ ev.msg.channel.order = "Unordered")
           => /\ res.kind = "ok"
              /\ ev.msg.channel.endpoint.channel_id \in DOMAIN channel_info
              /\ channel_info[ev.msg.channel.endpoint.channel_id] = ChannelInfo(ev.msg.channel)

\* a connect of a sound channel is refused for the counterparty's version alone
C13_Witness ==
    /\ IsChannelConnect
    /\ ev.msg.channel.version = "ics20-1"
    /\ ev.msg.channel.order = "Unordered"
    /\ ev.msg.counterparty_version = Some("ics20-2")
    /\ res = Err([kind |-> "InvalidIbcVersion", version |-> "ics20-2"])
    /\ channel_info = pre_info

----------------------------------------------------------------------------
(* C14: for every (channel, denom), total_sent never decreases: no         *)
(* receive, acknowledgement, timeout or dispatch callback lowers it or     *)
(* removes the entry, and only a success acknowledgement of a packet sent  *)
(* on that entry raises it.                                                *)

C14_TotalSentMonotone ==
    /\ DOMAIN pre \subseteq DOMAIN channel_state
    /\ \A k \in DOMAIN channel_state :
          /\ Entry(channel_state, k).total_sent >= Entry(pre, k).total_sent
          /\ Entry(channel_state, k).total_sent > Entry(pre, k).total_sent =>
                IsAckResult /\ k = SentKey

\* a receive draws on an entry whose total_sent a success acknowledgement raised
C14_Witness ==
    /\ IsReceive
    /\ res.kind = "ok"
    /\ Len(res.val.messages) = 1
    /\ EvMsg.val.amount > 0
    /\ Entry(channel_state, RecvKey).outstanding < Entry(pre, RecvKey).outstanding
    /\ Entry(channel_state, RecvKey).total_sent = Entry(pre, RecvKey).total_sent

----------------------------------------------------------------------------
(* Claims about the dispatch callback *)

IsReply == ev.kind = "reply"

\* the acknowledgement the host writes once the callback has returned: the
\* data of the callback's response when it sets any, else the pending one
FinalAck == IF res.kind = "ok" /\ res.val.data.some THEN res.val.data ELSE ev.pending

\* C15: the dispatch callback with the expected correlation id and a failed
\* dispatch result rewrites the pending acknowledgement to the Error variant
\* carrying the dispatch error's description; with the expected id and a
\* successful result it leaves the acknowledgement untouched; with any other
\* id it fails with an unknown-id error and rewrites nothing.  Every transfer
\* instruction the dispatcher builds carries that same id and asks for a
\* callback on failure only.
C15_ReplyRewritesAck ==
    /\ IsReply =>
          /\ (ev.reply.id = SEND_TOKEN_ID /\ ev.reply.result.kind = "err") =>
                /\ res.kind = "ok"
                /\ FinalAck.some
                /\ from_binary_ack(FinalAck.val) = Ok(Ics20AckError(ev.reply.result.err))
          /\ (ev.reply.id = SEND_TOKEN_ID /\ ev.reply.result.kind = "ok") =>
                /\ res.kind = "ok"
                /\ FinalAck = ev.pending
          /\ ev.reply.id # SEND_TOKEN_ID =>
                /\ res = Err([kind |-> "UnknownReplyId", id |-> ev.reply.id])
                /\ FinalAck = ev.pending
          /\ channel_state = pre
    /\ ((IsReceive \/ IsAck \/ IsTimeout) /\ res.kind = "ok") =>
          \A i \in 1 .. Len(res.val.messages) :
              /\ res.val.messages[i].id = SEND_TOKEN_ID
              /\ res.val.messages[i].reply_on = "error"

\* the transfer of a receive that was acknowledged with success has failed
C15_Witness ==
    /\ IsReply
    /\ ev.pending = Some(ack_success)
    /\ ev.reply.id = SEND_TOKEN_ID
    /\ ev.reply.result.kind = "err"
    /\ FinalAck = Some(ack_fail(<<"dispatch failed">>))

----------------------------------------------------------------------------
(* C16: a (channel, denom) entry comes into existence only through a       *)
(* success acknowledgement of a packet sent on it: a receive, an Error     *)
(* acknowledgement or a timeout on a key without an entry creates none.    *)

C16_EntryCreatedBySuccessAck ==
    \A k \in DOMAIN channel_state \ DOMAIN pre : IsAckResult /\ k = SentKey

\* a refund went out for a packet whose entry does not exist, and none was made
C16_Witness ==
    /\ IsFailurePath
    /\ res.kind = "ok"
    /\ Len(res.val.messages) = 1
    /\ SentKey \notin DOMAIN pre
    /\ SentKey \notin DOMAIN channel_state

----------------------------------------------------------------------------
(* C17: a ChannelInfo record is immutable once it exists: no later event,  *)
(* a further channel connect for the same channel id with another          *)
(* counterparty endpoint or connection id included, changes or removes it. *)

C17_ChannelInfoImmutable ==
    \A id \in DOMAIN pre_info :
        /\ id \in DOMAIN channel_info
        /\ channel_info[id] = pre_info[id]

----------------------------------------------------------------------------
(* C18: errors while an acknowledgement or a timeout is processed are      *)
(* fatal and commit nothing: when the acknowledgement or the original      *)
(* packet cannot be decoded, or the failure path's token contract is not   *)
(* on the allow-list, the handler returns an error, no ledger entry is     *)
(* changed and no transfer instruction is dispatched.                      *)

C18_AckTimeoutErrorsFatal ==
    (/\ IsAck \/ IsTimeout
     /\ \/ IsAck /\ from_binary_ack(ev.acknowledgement).kind # "ok"
        \/ EvMsg.kind # "ok"
        \/ IsFailurePath /\ EvMsg.kind = "ok" /\ NotListed(EvMsg.val.denom))
    => /\ res.kind = "err"
       /\ channel_state = pre

\* the refund of a timed-out packet fails on the allow-list, its entry being there
C18_Witness ==
    /\ IsTimeout
    /\ EvMsg.kind = "ok"
    /\ NotListed(EvMsg.val.denom)
    /\ SentKey \in DOMAIN pre
    /\ res = Err(NotOnAllowList)
    /\ channel_state = pre

----------------------------------------------------------------------------
(* Claims about the order of events *)

IsBatch == ev.kind = "batch"

\* the events of the last batch in the order p
Reordered(p) == [i \in 1 .. Len(ev.events) |-> ev.events[p[i]]]

\* what the last batch would have made of the ledger in the order p
Redelivered(p) == deliver_all(pre, allow_list, Reordered(p), 1)

\* C19: aggregate balances are order-independent: for a set of success
\* acknowledgements and receives on one (channel, denom), every ordering in
\* which each event is accepted ends with the same outstanding and the same
\* total_sent; in particular two success acknowledgements commute.
C19_OrderIndependent ==
    (IsBatch /\ res.accepted) =>
        \A p \in Permutations(1 .. Len(ev.events)) :
            Redelivered(p).accepted => Redelivered(p).cs = channel_state

\* receives and acknowledgements were accepted in an order, would have been
\* in another, and would not have been in a third
C19_Witness ==
    /\ IsBatch
    /\ res.accepted
    /\ \E i, j \in 1 .. Len(ev.events) :
          /\ ev.events[i].kind = "receive"
          /\ ev.events[j].kind = "ack"
    /\ \E p \in Permutations(1 .. Len(ev.events)) :
          Reordered(p) # ev.events /\ Redelivered(p).accepted
    /\ \E p \in Permutations(1 .. Len(ev.events)) : ~Redelivered(p).accepted

----------------------------------------------------------------------------
(* C20: a packet whose amount exceeds the 64-bit maximum is rejected with  *)
(* AmountOverflow: validate returns AmountOverflow exactly for such        *)
(* amounts, and no receive, acknowledgement or timeout applies a ledger    *)
(* update or dispatches a transfer instruction for such a packet.          *)

C20_OversizeAmountRejected ==
    /\ \A a \in Amounts :
          (validate(Ics20Packet(a, Uatom, "local-sender", "remote-rcpt")) = Err([kind |-> "AmountOverflow"]))
              <=> (a > U64_MAX)
    /\ ((IsReceive \/ IsAck \/ IsTimeout) /\ EvMsg.kind = "ok" /\ EvMsg.val.amount > U64_MAX) =>
          /\ channel_state = pre
          /\ res.kind = "ok" => res.val.messages = <<>>

----------------------------------------------------------------------------
(* C21: in every reachable state and for every (channel, denom) entry,     *)
(* outstanding <= total_sent.                                              *)

C21_OutstandingWithinSent ==
    \A k \in DOMAIN channel_state :
        channel_state[k].outstanding <= channel_state[k].total_sent

\* a refund goes out for a packet on an entry whose two counters are equal
\* and positive, and the entry stays as it is
C21_Witness ==
    /\ IsFailurePath
    /\ res.kind = "ok"
    /\ Len(res.val.messages) = 1
    /\ EvMsg.val.amount > 0
    /\ SentKey \in DOMAIN channel_state
    /\ channel_state[SentKey].outstanding = channel_state[SentKey].total_sent
    /\ channel_state[SentKey].total_sent > 0

----------------------------------------------------------------------------
(* C22: frame.  The dispatch callback never modifies the ledger; a receive *)
(* or a success acknowledgement modifies at most the entry keyed by its    *)
(* own (channel, denom) and leaves every other entry, the ChannelInfo      *)
(* records and the allow-list as they were; so when a dispatch failure     *)
(* downgrades a receive's success acknowledgement to a failure, what the   *)
(* receive took from outstanding stays taken.                              *)

\* entry k is after the last event what it was before it
Untouched(k) ==
    /\ k \in DOMAIN pre
    /\ k \in DOMAIN channel_state
    /\ channel_state[k] = pre[k]

C22_Frame ==
    /\ IsReply =>
          /\ channel_state = pre
          /\ \A k \in DOMAIN dispatched :
                Entry(channel_state, k).outstanding + dispatched[k]
                    <= Entry(channel_state, k).total_sent
    /\ IsReceive =>
          \A k \in DOMAIN pre \cup DOMAIN channel_state :
              Untouched(k) \/ (IsVoucherReceive /\ k = RecvKey)
    /\ IsAckResult =>
          \A k \in DOMAIN pre \cup DOMAIN channel_state :
              Untouched(k) \/ (EvMsg.kind = "ok" /\ k = SentKey)
    /\ (IsReply \/ IsReceive \/ IsAckResult) =>
          /\ channel_info = pre_info
          /\ allow_list = AllowListAtInit

\* the transfer of an accepted receive has failed and its acknowledgement is
\* downgraded, with the amount taken and another entry and a channel on record
C22_Witness ==
    /\ IsReply
    /\ ev.pending = Some(ack_success)
    /\ ev.reply.id = SEND_TOKEN_ID
    /\ ev.reply.result.kind = "err"
    /\ from_binary_ack(FinalAck.val).val.variant = "error"
    /\ \E k \in DOMAIN dispatched :
          /\ dispatched[k] > 0
          /\ Entry(channel_state, k).outstanding < Entry(channel_state, k).total_sent
    /\ Cardinality(DOMAIN channel_state) > 1
    /\ "channel-9" \in DOMAIN channel_info

============================================================================
